---- MODULE Spec2Model ----
(***************************************************************************)
(* Model of the schema analyser package: the SchemaAnalyzer registry       *)
(* (schema_analyzer.py), the ShardingStatistics accumulator and the        *)
(* StatisticsCalculator engine (schema_analyser/statistics_calculator.py). *)
(*                                                                         *)
(* Python values are represented as follows.                               *)
(*   dict            a function whose DOMAIN is the set of keys present    *)
(*   Optional[x]     a sequence of length 0 (None) or 1 (<<x>>)            *)
(*   list            a sequence                                            *)
(*   float results   exact rationals; a value rounded to d decimals is     *)
(*                   held as the integer number of 10^-d units, so         *)
(*                   avg/std/variance are in hundredths and balance_factor *)
(*                   in ten-thousandths                                    *)
(***************************************************************************)
EXTENDS Integers, Sequences, FiniteSets, TLC

VARIABLES collections, schemas, stats, calls, ret, lastOp

vars == <<collections, schemas, stats, calls, ret, lastOp>>

(* ---------------------------------------------------------------------- *)
(* Bounds of the model                                                     *)
(* ---------------------------------------------------------------------- *)

\* add_document / add_documents_batch are offered to the caller only while
\* the accumulator holds fewer than MaxDocs documents
MaxDocs == 3

\* longest list handed to add_documents_batch by the caller
MaxBatch == 2

(* ---------------------------------------------------------------------- *)
(* Inputs                                                                  *)
(* ---------------------------------------------------------------------- *)

CollectionNames == {"users", "orders"}

UserSchema ==
  [properties |->
     ("_id" :> [type |-> "string"]) @@
     ("name" :> [type |-> "string", maxLength |-> 10])]

ProductSchema ==
  [properties |->
     ("_id" :> [type |-> "string"]) @@
     ("tags" :> [type |-> "array", items |-> [type |-> "string", maxLength |-> 30]]) @@
     ("meta" :> [type |-> "object"]) @@
     ("legacy" :> [title |-> "untyped"])]

\* (collection_name, schema) pairs handed to load_schema
LoadInputs == {<<"users", UserSchema>>, <<"orders", ProductSchema>>}

\* counts handed to add_documents
DocCounts == {0, 3}

\* candidate sharding keys; "missing" is a field of no schema
ShardingKeys == {"_id", "name", "missing"}

\* key values handed directly to add_document / add_documents_batch
KeyValues == {0, 1}

\* key_value_generator callables: i -> i % k and i -> i // k
ModGen(k) == [kind |-> "mod", k |-> k]
DivGen(k) == [kind |-> "div", k |-> k]

\* (key_value_generator, sample_size) pairs handed to analyze_sharding in
\* every state
AnalysisInputs ==
  {<<>>, <<ModGen(2)>>} \X {<<>>, <<0>>, <<4>>}

\* the larger (key_value_generator, sample_size) pairs, handed to
\* analyze_sharding only as the first call after a load_schema (FirstCall)
LargeAnalysisInputs ==
  {<< <<>>, <<250>> >>,
   << <<>>, <<1005>> >>,
   << <<ModGen(5)>>, <<100>> >>,
   << <<DivGen(2)>>, <<7>> >>,
   << <<ModGen(201)>>, <<202>> >>,
   << <<ModGen(2)>>, <<40001>> >>}

(* ---------------------------------------------------------------------- *)
(* schema_analyzer.py: Field, Collection, Database, SchemaAnalyzer         *)
(* ---------------------------------------------------------------------- *)

\* dict.get(key, default) for a dict whose value under key is not optional
Get(d, key, default) == IF key \in DOMAIN d THEN d[key] ELSE default

\* dict.get(key) / dict.get(key, None): an Optional
GetOpt(d, key) == IF key \in DOMAIN d THEN <<d[key]>> ELSE <<>>

\* Field.__init__
Field(name, field_type, properties) ==
  [name       |-> name,
   type       |-> field_type,
   properties |-> properties,
   is_array   |-> (field_type = "array"),
   is_object  |-> (field_type = "object"),
   required   |-> Get(properties, "required", FALSE),
   default    |-> GetOpt(properties, "default"),
   items      |-> GetOpt(properties, "items")]

\* Collection.parse_schema: the fields dict built from schema["properties"]
parse_schema(schema) ==
  IF "properties" \in DOMAIN schema
    THEN [field_name \in DOMAIN schema.properties |->
            Field(field_name,
                  Get(schema.properties[field_name], "type", "unknown"),
                  schema.properties[field_name])]
    ELSE << >>

\* Collection.__init__: document_count starts at 0
Collection(name, schema) ==
  [name           |-> name,
   schema         |-> schema,
   fields         |-> parse_schema(schema),
   document_count |-> 0]

\* Collection.add_documents: sets (does not accumulate) the count
add_documents(collection, count) ==
  [collection EXCEPT !.document_count = count]

\* dict[key] = value
Put(d, key, value) ==
  IF key \in DOMAIN d THEN [d EXCEPT ![key] = value] ELSE (key :> value) @@ d

\* add_collection that keeps a collection already registered under the name
add_collection_KeepExisting(colls, collection) ==
  IF collection.name \in DOMAIN colls
    THEN colls
    ELSE Put(colls, collection.name, collection)

\* Database.add_collection
add_collection(colls, collection) == Put(colls, collection.name, collection)

(* ---------------------------------------------------------------------- *)
(* statistics_calculator.py: ShardingStatistics                            *)
(* ---------------------------------------------------------------------- *)

\* ShardingStatistics.__init__: empty distribution, zero total
ShardingStatistics(collection_name, sharding_key) ==
  [collection_name |-> collection_name,
   sharding_key    |-> sharding_key,
   distribution    |-> << >>,
   total_documents |-> 0]

\* add_document that counts the key but not the running total
add_document_NoTotal(s, key_value) ==
  [s EXCEPT
     !.distribution = Put(s.distribution, key_value,
                          Get(s.distribution, key_value, 0) + 1)]

\* add_document that enters a new key with count 0 and counts it from its
\* second document on
add_document_ZeroFirst(s, key_value) ==
  [s EXCEPT
     !.distribution    = Put(s.distribution, key_value,
                             IF key_value \in DOMAIN s.distribution
                               THEN s.distribution[key_value] + 1 ELSE 0),
     !.total_documents = s.total_documents + 1]

\* ShardingStatistics.add_document: defaultdict(int)[key_value] += 1 and
\* total_documents += 1
add_document(s, key_value) ==
  [s EXCEPT
     !.distribution    = Put(s.distribution, key_value,
                             Get(s.distribution, key_value, 0) + 1),
     !.total_documents = s.total_documents + 1]

\* the loop of add_documents_batch over key_values[lo..hi], in list order:
\* the first half of the range is applied to s, then the second half to the
\* result (the test on first makes TLC evaluate it before going on, so that
\* long lists do not nest deeply)
RECURSIVE add_documents_from(_, _, _, _)
add_documents_from(s, key_values, lo, hi) ==
  IF lo > hi THEN s
  ELSE IF lo = hi THEN add_document(s, key_values[lo])
  ELSE LET mid   == (lo + hi) \div 2
           first == add_documents_from(s, key_values, lo, mid)
       IN  IF first.total_documents >= 0
             THEN add_documents_from(first, key_values, mid + 1, hi)
             ELSE first

\* ShardingStatistics.add_documents_batch
add_documents_batch(s, key_values) ==
  add_documents_from(s, key_values, 1, Len(key_values))

\* list(self.distribution.values()) as the set of counts that occur
Values(d) == {d[k] : k \in DOMAIN d}

\* min(values), max(values)
Min(S) == CHOOSE x \in S : \A y \in S : x <= y
Max(S) == CHOOSE x \in S : \A y \in S : x >= y

\* round(a / b, 0) for a >= 0, b > 0: nearest integer, ties to even
RoundDiv(a, b) ==
  LET q == a \div b
      r == a % b
  IN  IF 2 * r < b THEN q
      ELSE IF 2 * r > b THEN q + 1
      ELSE IF q % 2 = 0 THEN q ELSE q + 1

\* sum((x - avg_docs) ** 2 for x in values) times unique^2, that is the sum
\* over the keys k of d of (unique * d[k] - total)^2, added up count by
\* count: each count c that occurs contributes once per key that has it
RECURSIVE SumSqDev(_, _, _, _)
SumSqDev(d, counts, unique, total) ==
  IF counts = {} THEN 0
  ELSE LET c == Min(counts)
           e == unique * c - total
       IN  Cardinality({k \in DOMAIN d : d[k] = c}) * e * e
             + SumSqDev(d, {x \in counts : x > c}, unique, total)

\* round(math.sqrt(num / den), 2) in hundredths: the n nearest to
\* 100 * sqrt(num / den), found by comparing squares, searched from n
RECURSIVE RoundSqrt100(_, _, _)
RoundSqrt100(num, den, n) ==
  LET half == (2 * n + 1) * (2 * n + 1) * den
  IN  IF 40000 * num < half THEN n
      ELSE IF 40000 * num = half THEN (IF n % 2 = 0 THEN n ELSE n + 1)
      ELSE RoundSqrt100(num, den, n + 1)

\* the record returned by get_statistics for an empty accumulator
EmptyStatistics(s) ==
  [collection          |-> s.collection_name,
   sharding_key        |-> s.sharding_key,
   total_documents     |-> 0,
   unique_shard_values |-> 0,
   error               |-> "No documents in collection"]

\* round(avg_docs, 2) in hundredths, avg_docs = total_documents / unique_shards
avg_documents_per_shard_of(total, unique_shards) ==
  RoundDiv(100 * total, unique_shards)

\* variance divided by total_documents instead of unique_shards
variance_of_PerDocument(d, total, unique_shards) ==
  RoundDiv(100 * SumSqDev(d, Values(d), unique_shards, total),
           unique_shards * unique_shards * total)

\* round(variance, 2) in hundredths,
\* variance = sum((x - avg_docs) ** 2 for x in values) / unique_shards,
\* which is SumSqDev / unique_shards^3
variance_of(d, total, unique_shards) ==
  RoundDiv(100 * SumSqDev(d, Values(d), unique_shards, total),
           unique_shards * unique_shards * unique_shards)

\* std_deviation reported as the variance, the square root left out
std_deviation_of_NoSqrt(d, total, unique_shards) ==
  RoundDiv(100 * SumSqDev(d, Values(d), unique_shards, total),
           unique_shards * unique_shards * unique_shards)

\* round(math.sqrt(variance), 2) in hundredths
std_deviation_of(d, total, unique_shards) ==
  RoundSqrt100(SumSqDev(d, Values(d), unique_shards, total),
               unique_shards * unique_shards * unique_shards, 0)

\* balance_factor computed with floor division, (max - min) // avg
balance_factor_of_FloorDiv(min_docs, max_docs, total, unique_shards) ==
  IF total > 0
    THEN 10000 * (((max_docs - min_docs) * unique_shards) \div total)
    ELSE 0

\* balance_factor computed as the max / avg ratio
balance_factor_of_MaxOverAvg(min_docs, max_docs, total, unique_shards) ==
  IF total > 0
    THEN RoundDiv(10000 * max_docs * unique_shards, total)
    ELSE 0

\* round(balance_factor, 4) in ten-thousandths,
\* balance_factor = (max_docs - min_docs) / avg_docs if avg_docs > 0 else 0
balance_factor_of(min_docs, max_docs, total, unique_shards) ==
  IF total > 0
    THEN RoundDiv(10000 * (max_docs - min_docs) * unique_shards, total)
    ELSE 0

\* the record returned by get_statistics for a non-empty accumulator
FullStatistics(s) ==
  LET values        == Values(s.distribution)
      unique_shards == Cardinality(DOMAIN s.distribution)
      min_docs      == Min(values)
      max_docs      == Max(values)
  IN  [collection              |-> s.collection_name,
       sharding_key            |-> s.sharding_key,
       total_documents         |-> s.total_documents,
       unique_shard_values     |-> unique_shards,
       min_documents_per_shard |-> min_docs,
       max_documents_per_shard |-> max_docs,
       avg_documents_per_shard |->
         avg_documents_per_shard_of(s.total_documents, unique_shards),
       std_deviation           |->
         std_deviation_of(s.distribution, s.total_documents, unique_shards),
       variance                |->
         variance_of(s.distribution, s.total_documents, unique_shards),
       balance_factor          |->
         balance_factor_of(min_docs, max_docs, s.total_documents, unique_shards),
       distribution            |-> s.distribution]

\* get_statistics whose empty result carries zero metrics and no error flag
get_statistics_ZeroMetrics(s) ==
  IF s.total_documents = 0
    THEN [collection              |-> s.collection_name,
          sharding_key            |-> s.sharding_key,
          total_documents         |-> 0,
          unique_shard_values     |-> 0,
          min_documents_per_shard |-> 0,
          max_documents_per_shard |-> 0,
          avg_documents_per_shard |-> 0,
          std_deviation           |-> 0,
          variance                |-> 0,
          balance_factor          |-> 0,
          distribution            |-> s.distribution]
    ELSE FullStatistics(s)

\* ShardingStatistics.get_statistics
get_statistics(s) ==
  IF s.total_documents = 0 THEN EmptyStatistics(s) ELSE FullStatistics(s)

(* ---------------------------------------------------------------------- *)
(* statistics_calculator.py: StatisticsCalculator.analyze_sharding         *)
(* ---------------------------------------------------------------------- *)

\* key_value_generator(i)
Apply(generator, i) ==
  IF generator.kind = "mod" THEN i % generator.k ELSE i \div generator.k

\* list(range(n))
range(n) == [j \in 1..n |-> j - 1]

\* sample_size or collection.document_count: None and 0 are both falsy
doc_count_of(collection, sample_size) ==
  IF sample_size # <<>> /\ sample_size[1] # 0
    THEN sample_size[1]
    ELSE collection.document_count

\* shard_count taken as min(10, max(1, doc_count // 10))
shard_count_of_PerTen(doc_count) ==
  LET tens     == doc_count \div 10
      atleast1 == IF tens > 1 THEN tens ELSE 1
  IN  IF atleast1 < 10 THEN atleast1 ELSE 10

\* shard_count = min(10, max(1, doc_count // 100))
shard_count_of(doc_count) ==
  LET hundreds == doc_count \div 100
      atleast1 == IF hundreds > 1 THEN hundreds ELSE 1
  IN  IF atleast1 < 10 THEN atleast1 ELSE 10

\* key_values built by calling the generator with i + 1 for document i
key_values_of_OffByOne(key_value_generator, doc_count) ==
  LET indices == range(doc_count)
  IN  IF key_value_generator # <<>>
        THEN [j \in 1..Len(indices) |->
                Apply(key_value_generator[1], indices[j] + 1)]
        ELSE LET shard_values == range(shard_count_of(doc_count))
             IN  [j \in 1..Len(indices) |->
                    shard_values[(indices[j] % Len(shard_values)) + 1]]

\* key_values whose default branch fills the buckets block by block
\* (document i to bucket i * shard_count // doc_count)
key_values_of_Blocks(key_value_generator, doc_count) ==
  LET indices == range(doc_count)
  IN  IF key_value_generator # <<>>
        THEN [j \in 1..Len(indices) |-> Apply(key_value_generator[1], indices[j])]
        ELSE LET shard_values == range(shard_count_of(doc_count))
             IN  [j \in 1..Len(indices) |->
                    shard_values[((indices[j] * Len(shard_values)) \div doc_count) + 1]]

\* the key_values list built by either branch of analyze_sharding
key_values_of(key_value_generator, doc_count) ==
  LET indices == range(doc_count)
  IN  IF key_value_generator # <<>>
        THEN [j \in 1..Len(indices) |-> Apply(key_value_generator[1], indices[j])]
        ELSE LET shard_values == range(shard_count_of(doc_count))
             IN  [j \in 1..Len(indices) |->
                    shard_values[(indices[j] % Len(shard_values)) + 1]]

\* the indices the generator is called with, in call order
generator_calls(key_value_generator, doc_count) ==
  IF key_value_generator # <<>> THEN range(doc_count) ELSE <<>>

\* analyze_sharding without the check of the sharding key
analyze_sharding_NoKeyCheck(collection, sharding_key, key_value_generator, sample_size) ==
  LET new       == ShardingStatistics(collection.name, sharding_key)
      doc_count == doc_count_of(collection, sample_size)
  IN  [kind  |-> "ShardingStatistics",
       value |-> add_documents_batch(
                   new, key_values_of(key_value_generator, doc_count)),
       calls |-> generator_calls(key_value_generator, doc_count)]

\* analyze_sharding accumulating into the counters of the ShardingStatistics
\* the caller already holds instead of into those of a new object
analyze_sharding_SharedCounters(collection, sharding_key, key_value_generator, sample_size) ==
  LET new       == [ShardingStatistics(collection.name, sharding_key) EXCEPT
                      !.distribution = stats.distribution,
                      !.total_documents = stats.total_documents]
      doc_count == doc_count_of(collection, sample_size)
  IN  IF sharding_key \notin DOMAIN collection.fields
        THEN [kind |-> "ValueError", calls |-> <<>>]
        ELSE [kind  |-> "ShardingStatistics",
              value |-> add_documents_batch(
                          new, key_values_of(key_value_generator, doc_count)),
              calls |-> generator_calls(key_value_generator, doc_count)]

\* analyze_sharding: the outcome of the call (raise or return) and the
\* generator calls it made
analyze_sharding(collection, sharding_key, key_value_generator, sample_size) ==
  LET new       == ShardingStatistics(collection.name, sharding_key)
      doc_count == doc_count_of(collection, sample_size)
  IN  IF sharding_key \notin DOMAIN collection.fields
        THEN [kind |-> "ValueError", calls |-> <<>>]
        ELSE [kind  |-> "ShardingStatistics",
              value |-> add_documents_batch(
                          new, key_values_of(key_value_generator, doc_count)),
              calls |-> generator_calls(key_value_generator, doc_count)]

(* ---------------------------------------------------------------------- *)
(* State                                                                   *)
(*   collections  SchemaAnalyzer.database.collections                      *)
(*   schemas      SchemaAnalyzer.schemas                                   *)
(*   stats        the ShardingStatistics object the caller holds           *)
(*   calls        the indices key_value_generator was called with during   *)
(*                the last operation, in call order                        *)
(*   ret          what the last operation returned or raised               *)
(*   lastOp       the last operation and its arguments                     *)
(* ---------------------------------------------------------------------- *)

None == [kind |-> "None"]

\* SchemaAnalyzer.__init__ (an empty Database, no schemas) and a first
\* ShardingStatistics constructed by the caller
Init ==
  /\ collections = << >>
  /\ schemas = << >>
  /\ stats = ShardingStatistics("users", "_id")
  /\ calls = <<>>
  /\ ret = None
  /\ lastOp = [op |-> "__init__"]

\* SchemaAnalyzer.load_schema with a dict schema
LoadSchema(collection_name, schema) ==
  LET collection == Collection(collection_name, schema)
  IN  /\ schemas' = Put(schemas, collection_name, schema)
      /\ collections' = add_collection(collections, collection)
      /\ ret' = [kind |-> "Collection", value |-> collection]
      /\ calls' = <<>>
      /\ lastOp' = [op |-> "load_schema", collection_name |-> collection_name]
      /\ UNCHANGED stats

\* SchemaAnalyzer.add_documents: silently does nothing for an unknown name
AddDocuments(collection_name, count) ==
  /\ collections' =
       IF collection_name \in DOMAIN collections
         THEN [collections EXCEPT
                 ![collection_name] = add_documents(@, count)]
         ELSE collections
  /\ ret' = None
  /\ calls' = <<>>
  /\ lastOp' = [op |-> "add_documents", collection_name |-> collection_name,
                count |-> count]
  /\ UNCHANGED <<schemas, stats>>

\* the caller constructs a new ShardingStatistics
NewShardingStatistics(collection_name, sharding_key) ==
  /\ stats' = ShardingStatistics(collection_name, sharding_key)
  /\ ret' = None
  /\ calls' = <<>>
  /\ lastOp' = [op |-> "ShardingStatistics"]
  /\ UNCHANGED <<collections, schemas>>

\* stats.add_document(key_value)
AddDocument(key_value) ==
  /\ stats.total_documents < MaxDocs
  /\ stats' = add_document(stats, key_value)
  /\ ret' = None
  /\ calls' = <<>>
  /\ lastOp' = [op |-> "add_document"]
  /\ UNCHANGED <<collections, schemas>>

\* stats.add_documents_batch(key_values)
AddDocumentsBatch(key_values) ==
  /\ stats.total_documents + Len(key_values) <= MaxDocs
  /\ stats' = add_documents_batch(stats, key_values)
  /\ ret' = None
  /\ calls' = <<>>
  /\ lastOp' = [op |-> "add_documents_batch"]
  /\ UNCHANGED <<collections, schemas>>

\* stats.get_statistics()
GetStatistics ==
  /\ ret' = [kind |-> "dict", value |-> get_statistics(stats)]
  /\ calls' = <<>>
  /\ lastOp' = [op |-> "get_statistics"]
  /\ UNCHANGED <<collections, schemas, stats>>

\* stats = StatisticsCalculator.analyze_sharding(collection, sharding_key,
\* key_value_generator, sample_size) on a registered collection; when the
\* call raises, the assignment does not happen
AnalyzeSharding(collection_name, sharding_key, key_value_generator, sample_size) ==
  /\ collection_name \in DOMAIN collections
  /\ \E result \in {analyze_sharding(collections[collection_name], sharding_key,
                                      key_value_generator, sample_size)} :
       /\ stats' = IF result.kind = "ShardingStatistics"
                     THEN result.value ELSE stats
       /\ ret' = [kind |-> result.kind]
       /\ calls' = result.calls
  /\ lastOp' = [op |-> "analyze_sharding",
                collection_name |-> collection_name,
                sharding_key |-> sharding_key,
                key_value_generator |-> key_value_generator,
                sample_size |-> sample_size]
  /\ UNCHANGED <<collections, schemas>>

\* the lists handed to add_documents_batch
RECURSIVE SeqsUpTo(_, _)
SeqsUpTo(S, n) ==
  IF n = 0 THEN {<<>>}
  ELSE LET shorter == SeqsUpTo(S, n - 1)
       IN  shorter \cup {Append(q, x) : q \in shorter, x \in S}

\* the state right after the first load_schema of a session: one collection
\* registered, the accumulator as constructed
FirstCall ==
  /\ lastOp.op = "load_schema"
  /\ Cardinality(DOMAIN collections) = 1
  /\ stats = ShardingStatistics("users", "_id")

Next ==
  \/ \E load \in LoadInputs : LoadSchema(load[1], load[2])
  \/ \E collection_name \in CollectionNames, count \in DocCounts :
       AddDocuments(collection_name, count)
  \/ NewShardingStatistics("users", "_id")
  \/ \E key_value \in KeyValues : AddDocument(key_value)
  \/ \E key_values \in SeqsUpTo(KeyValues, MaxBatch) : AddDocumentsBatch(key_values)
  \/ GetStatistics
  \/ \E collection_name \in CollectionNames, sharding_key \in ShardingKeys,
        input \in AnalysisInputs :
       AnalyzeSharding(collection_name, sharding_key, input[1], input[2])
  \/ \E collection_name \in CollectionNames, sharding_key \in ShardingKeys,
        input \in LargeAnalysisInputs :
       /\ FirstCall
       /\ AnalyzeSharding(collection_name, sharding_key, input[1], input[2])

Spec == Init /\ [][Next]_vars

(* ---------------------------------------------------------------------- *)
(* size_calculator.py: SizeCalculator                                      *)
(*   sizes in MB are held in hundredths, sizes in GB in ten-thousandths:   *)
(*   round(b / 1024^2, 2) is the rounding of 100 b / 2^20 = 25 b / 2^18    *)
(*   and round(b / 1024^3, 4) that of 10000 b / 2^30 = 625 b / 2^26        *)
(* ---------------------------------------------------------------------- *)

\* SizeCalculator.TYPE_SIZES
TYPE_SIZES ==
  ("string" :> 50) @@ ("number" :> 8) @@ ("integer" :> 4) @@
  ("boolean" :> 1) @@ ("array" :> 16) @@ ("object" :> 24) @@ ("null" :> 0)

\* get_type_size that looks at minLength before maxLength
get_type_size_MinFirst(field_type, properties) ==
  LET base_size == Get(TYPE_SIZES, field_type, 50)
  IN  IF field_type = "string"
        THEN IF "minLength" \in DOMAIN properties THEN properties.minLength
             ELSE IF "maxLength" \in DOMAIN properties THEN properties.maxLength
             ELSE base_size
        ELSE base_size

\* SizeCalculator.get_type_size; properties is the dict after
\* `properties or {}`
get_type_size(field_type, properties) ==
  LET base_size == Get(TYPE_SIZES, field_type, 50)
  IN  IF field_type = "string"
        THEN IF "maxLength" \in DOMAIN properties THEN properties.maxLength
             ELSE IF "minLength" \in DOMAIN properties THEN properties.minLength
             ELSE base_size
        ELSE base_size

\* the field_size of one field in the loop of calculate_document_size
field_size_of(field) ==
  LET type_size  == get_type_size(field.type, field.properties)
      \* `field.is_array and field.items`: items present and not an empty dict
      array_size ==
        IF field.is_array /\ field.items # <<>> /\ DOMAIN field.items[1] # {}
          THEN get_type_size(Get(field.items[1], "type", "object"), << >>) * 5 + 16
          ELSE type_size
  IN  IF field.is_object THEN 24 ELSE array_size

\* the sum over the fields named in names of field_size + 8
RECURSIVE fields_size(_, _)
fields_size(fields, names) ==
  IF names = {} THEN 0
  ELSE LET field_name == CHOOSE n \in names : TRUE
       IN  field_size_of(fields[field_name]) + 8
             + fields_size(fields, names \ {field_name})

\* calculate_document_size without the 8 bytes of field name overhead
calculate_document_size_NoNameOverhead(collection) ==
  24 + fields_size(collection.fields, DOMAIN collection.fields)
     - 8 * Cardinality(DOMAIN collection.fields)

\* SizeCalculator.calculate_document_size
calculate_document_size(collection) ==
  24 + fields_size(collection.fields, DOMAIN collection.fields)

\* SizeCalculator.calculate_collection_size
calculate_collection_size(collection) ==
  LET doc_size   == calculate_document_size(collection)
      total_size == doc_size * collection.document_count
  IN  [collection_name             |-> collection.name,
       document_count              |-> collection.document_count,
       average_document_size_bytes |-> doc_size,
       total_collection_size_bytes |-> total_size,
       total_collection_size_mb    |-> RoundDiv(25 * total_size, 512 * 512),
       total_collection_size_gb    |-> RoundDiv(625 * total_size, 8192 * 8192)]

\* the total accumulated from the rounded MB figures of the collections
RECURSIVE collections_total_FromMb(_, _)
collections_total_FromMb(colls, names) ==
  IF names = {} THEN 0
  ELSE LET name == CHOOSE n \in names : TRUE
       IN  (calculate_collection_size(colls[name]).total_collection_size_mb
              * 512 * 512) \div 25
             + collections_total_FromMb(colls, names \ {name})

\* the total_size accumulated by the loop of calculate_database_size over
\* the collections named in names
RECURSIVE collections_total(_, _)
collections_total(colls, names) ==
  IF names = {} THEN 0
  ELSE LET name == CHOOSE n \in names : TRUE
       IN  calculate_collection_size(colls[name]).total_collection_size_bytes
             + collections_total(colls, names \ {name})

\* SizeCalculator.calculate_database_size on the analyzer's database; the
\* collections list is held per collection name (its order, the insertion
\* order of the dict, is not represented)
calculate_database_size(colls) ==
  LET total_size == collections_total(colls, DOMAIN colls)
  IN  [collection_count        |-> Cardinality(DOMAIN colls),
       collections             |->
         [name \in DOMAIN colls |-> calculate_collection_size(colls[name])],
       total_database_size_bytes |-> total_size,
       total_database_size_mb    |-> RoundDiv(25 * total_size, 512 * 512),
       total_database_size_gb    |-> RoundDiv(625 * total_size, 8192 * 8192)]

\* SizeCalculator.get_type_size(field_type, properties)
GetTypeSize(field_type, properties) ==
  /\ ret' = [kind |-> "int", value |-> get_type_size(field_type, properties)]
  /\ calls' = <<>>
  /\ lastOp' = [op |-> "get_type_size", field_type |-> field_type,
                properties |-> properties]
  /\ UNCHANGED <<collections, schemas, stats>>

\* SizeCalculator.calculate_document_size(collection) on a registered
\* collection
CalculateDocumentSize(collection_name) ==
  /\ collection_name \in DOMAIN collections
  /\ ret' = [kind |-> "int",
             value |-> calculate_document_size(collections[collection_name])]
  /\ calls' = <<>>
  /\ lastOp' = [op |-> "calculate_document_size",
                collection_name |-> collection_name]
  /\ UNCHANGED <<collections, schemas, stats>>

\* SizeCalculator.calculate_collection_size(collection) on a registered
\* collection
CalculateCollectionSize(collection_name) ==
  /\ collection_name \in DOMAIN collections
  /\ ret' = [kind |-> "dict",
             value |-> calculate_collection_size(collections[collection_name])]
  /\ calls' = <<>>
  /\ lastOp' = [op |-> "calculate_collection_size",
                collection_name |-> collection_name]
  /\ UNCHANGED <<collections, schemas, stats>>

\* SizeCalculator.calculate_database_size(analyzer.get_database())
CalculateDatabaseSize ==
  /\ ret' = [kind |-> "dict", value |-> calculate_database_size(collections)]
  /\ calls' = <<>>
  /\ lastOp' = [op |-> "calculate_database_size"]
  /\ UNCHANGED <<collections, schemas, stats>>

\* a schema without a "properties" key: a collection with no fields
EmptySchema == [title |-> "Empty"]

\* a schema with one field of every kind the size rules tell apart
CatalogSchema ==
  [properties |->
     ("code" :> [type |-> "string", minLength |-> 3]) @@
     ("label" :> [type |-> "string", minLength |-> 3, maxLength |-> 40]) @@
     ("price" :> [type |-> "number"]) @@
     ("stock" :> [type |-> "integer", maxLength |-> 9]) @@
     ("active" :> [type |-> "boolean"]) @@
     ("gone" :> [type |-> "null"]) @@
     ("added" :> [type |-> "date"]) @@
     ("sizes" :> [type |-> "array", items |-> [type |-> "integer"]]) @@
     ("notes" :> [type |-> "array"]) @@
     ("parts" :> [type |-> "array", items |-> [title |-> "part"]]) @@
     ("address" :> [type |-> "object",
                    properties |-> ("street" :> [type |-> "string"]) @@
                                   ("zip" :> [type |-> "string", maxLength |-> 5])])]

\* (collection_name, schema) pairs handed to load_schema by the size runs
SizeLoadInputs ==
  LoadInputs \cup {<<"users", EmptySchema>>, <<"users", ProductSchema>>,
                   <<"orders", CatalogSchema>>}

\* counts handed to add_documents by the size runs
SizeDocCounts == DocCounts \cup {250}

\* (field_type, properties) pairs handed to get_type_size
TypeSizeInputs ==
  {"string", "number", "integer", "boolean", "array", "object", "null",
   "unknown", "date"}
  \X {<< >>, [maxLength |-> 10], [minLength |-> 3],
      [minLength |-> 3, maxLength |-> 50], [maxLength |-> 0]}

\* the runs of the size calculator over the registry
SizeNext ==
  \/ \E load \in SizeLoadInputs : LoadSchema(load[1], load[2])
  \/ \E collection_name \in CollectionNames, count \in SizeDocCounts :
       AddDocuments(collection_name, count)
  \/ \E input \in TypeSizeInputs : GetTypeSize(input[1], input[2])
  \/ \E collection_name \in CollectionNames : CalculateDocumentSize(collection_name)
  \/ \E collection_name \in CollectionNames : CalculateCollectionSize(collection_name)
  \/ CalculateDatabaseSize

SpecSize == Init /\ [][SizeNext]_vars

(* ---------------------------------------------------------------------- *)
(* statistics_calculator.py: compare_sharding_strategies                   *)
(*   key_generators is an Optional dict from field names to generators;    *)
(*   the generator calls of a comparison are recorded with the key whose   *)
(*   generator was called.                                                 *)
(* ---------------------------------------------------------------------- *)

\* key_generators or {}: None and {} both give the empty dict
or_empty(key_generators) ==
  IF key_generators = <<>> THEN << >> ELSE key_generators[1]

\* the generator calls of one analysis, recorded with its key
keyed_calls(key, indices) ==
  [j \in 1..Len(indices) |-> [key |-> key, i |-> indices[j]]]

\* the for loop of compare_sharding_strategies from the keys still to do,
\* results and calls being those gathered so far; a raise of
\* analyze_sharding leaves the loop and the function
RECURSIVE compare_from(_, _, _, _, _)
compare_from(collection, sharding_keys, key_generators, results, made) ==
  IF sharding_keys = <<>>
    THEN [kind |-> "list", value |-> results, calls |-> made]
    ELSE LET key       == Head(sharding_keys)
             generator == GetOpt(key_generators, key)
             outcome   == analyze_sharding(collection, key, generator, <<>>)
         IN  IF outcome.kind = "ValueError"
               THEN [kind |-> "ValueError", calls |-> made]
               ELSE compare_from(collection, Tail(sharding_keys), key_generators,
                                 Append(results, get_statistics(outcome.value)),
                                 made \o keyed_calls(key, outcome.calls))

\* compare_sharding_strategies going through the keys last to first
compare_sharding_strategies_Reversed(collection, sharding_keys, key_generators) ==
  compare_from(collection,
               [j \in 1..Len(sharding_keys) |->
                  sharding_keys[Len(sharding_keys) + 1 - j]],
               or_empty(key_generators), <<>>, <<>>)

\* compare_sharding_strategies passing over the keys that are not fields
compare_sharding_strategies_SkipInvalid(collection, sharding_keys, key_generators) ==
  compare_from(collection,
               SelectSeq(sharding_keys, LAMBDA key : key \in DOMAIN collection.fields),
               or_empty(key_generators), <<>>, <<>>)

\* StatisticsCalculator.compare_sharding_strategies: the outcome of the call
\* (raise or the list of reports) and the generator calls it made
compare_sharding_strategies(collection, sharding_keys, key_generators) ==
  compare_from(collection, sharding_keys, or_empty(key_generators), <<>>, <<>>)

\* StatisticsCalculator.compare_sharding_strategies(collection,
\* sharding_keys, key_generators) on a registered collection; the
\* ShardingStatistics the caller holds is no argument of the call
CompareShardingStrategies(collection_name, sharding_keys, key_generators) ==
  /\ collection_name \in DOMAIN collections
  /\ \E result \in {compare_sharding_strategies(collections[collection_name],
                                                 sharding_keys, key_generators)} :
       /\ ret' = IF result.kind = "list"
                   THEN [kind |-> "list", value |-> result.value]
                   ELSE [kind |-> result.kind]
       /\ calls' = result.calls
  /\ lastOp' = [op |-> "compare_sharding_strategies",
                collection_name |-> collection_name,
                sharding_keys |-> sharding_keys,
                key_generators |-> key_generators]
  /\ UNCHANGED <<collections, schemas, stats>>

\* whether the distribution in the dict returned by get_statistics is the
\* accumulator's own dict: dict(self.distribution) builds a new one
report_shares_distribution == FALSE

\* the caller writes report["distribution"][key_value] = 0 into the dict the
\* last get_statistics returned (the report of an empty accumulator has no
\* distribution to write to)
WriteReport(key_value) ==
  /\ lastOp.op = "get_statistics"
  /\ "distribution" \in DOMAIN ret.value
  /\ ret' = [ret EXCEPT !.value.distribution = Put(@, key_value, 0)]
  /\ stats' = IF report_shares_distribution
                THEN [stats EXCEPT !.distribution = Put(@, key_value, 0)]
                ELSE stats
  /\ calls' = <<>>
  /\ lastOp' = [op |-> "write_report"]
  /\ UNCHANGED <<collections, schemas>>

\* sharding_keys lists handed to compare_sharding_strategies
CompareKeyLists ==
  {<<>>, <<"_id">>, <<"name", "_id">>, <<"_id", "_id">>,
   <<"missing", "_id">>, <<"_id", "missing", "_id">>, <<"_id", "name", "_id">>}

\* key_generators handed to compare_sharding_strategies: None, {} and dicts
\* with a generator for some of the keys
CompareGenerators ==
  {<<>>, << << >> >>,
   << ("_id" :> ModGen(2)) >>,
   << ("name" :> DivGen(2)) @@ ("missing" :> ModGen(2)) >>}

CompareNext ==
  \/ \E load \in LoadInputs : LoadSchema(load[1], load[2])
  \/ \E collection_name \in CollectionNames, count \in DocCounts :
       AddDocuments(collection_name, count)
  \/ GetStatistics
  \/ \E key_value \in KeyValues : WriteReport(key_value)
  \/ \E collection_name \in CollectionNames, sharding_key \in ShardingKeys,
        input \in AnalysisInputs :
       AnalyzeSharding(collection_name, sharding_key, input[1], input[2])
  \/ \E collection_name \in CollectionNames, sharding_keys \in CompareKeyLists,
        key_generators \in CompareGenerators :
       CompareShardingStrategies(collection_name, sharding_keys, key_generators)
  \/ \E collection_name \in CollectionNames : CalculateDocumentSize(collection_name)
  \/ \E collection_name \in CollectionNames : CalculateCollectionSize(collection_name)
  \/ CalculateDatabaseSize

SpecCompare == Init /\ [][CompareNext]_vars

(* ---------------------------------------------------------------------- *)
(* Properties                                                              *)
(* ---------------------------------------------------------------------- *)

\* the last operation was an analyze_sharding call that returned
Analyzed == lastOp.op = "analyze_sharding" /\ ret.kind = "ShardingStatistics"

\* the last operation was get_statistics
Reported == lastOp.op = "get_statistics"

\* the count of key in a distribution, 0 for a key that is not present
CountOf(d, key) == IF key \in DOMAIN d THEN d[key] ELSE 0

\* the sum of the per-key counts of d, added up count by count
RECURSIVE SumOfCounts(_, _)
SumOfCounts(d, counts) ==
  IF counts = {} THEN 0
  ELSE LET c == CHOOSE x \in counts : TRUE
       IN  c * Cardinality({k \in DOMAIN d : d[k] = c})
             + SumOfCounts(d, counts \ {c})

\* C1: in every reachable state the per-key counts of the caller's
\* distribution add up to total_documents exactly.
C1_SumEqualsTotal ==
  SumOfCounts(stats.distribution, {stats.distribution[k] : k \in DOMAIN stats.distribution})
    = stats.total_documents

\* C1 witness: a batch added on top of a generator-built distribution
C1_Witness ==
  /\ lastOp.op = "add_documents_batch"
  /\ stats.sharding_key = "name"
  /\ stats.total_documents = 3
  /\ Cardinality(DOMAIN stats.distribution) = 2

\* C2: an analyze_sharding step whose sharding_key is not a field of the
\* collection raises ValueError, calls the generator for no index, leaves the
\* caller's accumulator as it was (nothing accumulated, nothing returned) and
\* leaves the collections unchanged, whatever sample_size and document_count.
C2_KeyNotFoundFailsFast ==
  [][ ( /\ lastOp'.op = "analyze_sharding"
        /\ lastOp'.sharding_key \notin
             DOMAIN collections[lastOp'.collection_name].fields )
      => ( /\ ret'.kind = "ValueError"
           /\ calls' = <<>>
           /\ stats' = stats
           /\ collections' = collections
           /\ schemas' = schemas ) ]_vars

\* C2 witness: a failed call with a generator and a sample size, made while
\* the caller held a non-empty accumulator and the collection had documents
C2_Witness ==
  /\ lastOp.op = "analyze_sharding"
  /\ ret.kind = "ValueError"
  /\ lastOp.key_value_generator # <<>>
  /\ lastOp.sample_size = <<4>>
  /\ collections[lastOp.collection_name].document_count = 3
  /\ stats.total_documents = 2

\* C3: the returned total_documents is the supplied sample_size whenever one
\* is given (0 included), and the collection's document_count otherwise.
C3_SampleSizeIsN ==
  Analyzed =>
    stats.total_documents =
      IF lastOp.sample_size # <<>>
        THEN lastOp.sample_size[1]
        ELSE collections[lastOp.collection_name].document_count

\* C4: with a generator and a valid key, the generator is called exactly
\* once for each index 0..N-1, in increasing order and with no other index,
\* N being the number of documents simulated, and each key's count is the
\* number of indices for which the generator returned that key.
C4_GeneratorCalls ==
  (Analyzed /\ lastOp.key_value_generator # <<>>) =>
    LET N == stats.total_documents
        g == lastOp.key_value_generator[1]
    IN  /\ Len(calls) = N
        /\ \A j \in 1..N : calls[j] = j - 1
        /\ \A key \in DOMAIN stats.distribution \cup {Apply(g, i) : i \in 0..(N - 1)} :
             CountOf(stats.distribution, key)
               = Cardinality({i \in 0..(N - 1) : Apply(g, i) = key})

\* C4 witness: a generator run that produced unequal counts
C4_Witness ==
  /\ Analyzed
  /\ lastOp.key_value_generator = <<ModGen(2)>>
  /\ Len(calls) = 3
  /\ stats.distribution = (0 :> 2) @@ (1 :> 1)

\* C5: without a generator, with bucketCount = min(10, max(1, N div 100)),
\* only the labels 0..bucketCount-1 are used and the count of bucket b is the
\* number of i in 0..N-1 with i mod bucketCount = b, and no generator call
\* is made.
C5_DefaultBuckets ==
  (Analyzed /\ lastOp.key_value_generator = <<>>) =>
    LET N           == stats.total_documents
        hundreds    == N \div 100
        bucketCount == IF hundreds < 1 THEN 1
                       ELSE IF hundreds > 10 THEN 10 ELSE hundreds
    IN  /\ DOMAIN stats.distribution \subseteq 0..(bucketCount - 1)
        /\ \A b \in 0..(bucketCount - 1) :
             CountOf(stats.distribution, b)
               = Cardinality({i \in 0..(N - 1) : i % bucketCount = b})
        /\ calls = <<>>

\* C5 witness: a default run over 250 documents, two buckets of 125
C5_Witness ==
  /\ Analyzed
  /\ lastOp.key_value_generator = <<>>
  /\ stats.total_documents = 250
  /\ stats.distribution = (0 :> 125) @@ (1 :> 125)

\* C6: get_statistics on an accumulator with no documents returns (does not
\* raise) the empty result: total_documents 0, unique_shard_values 0, an
\* error flag, and none of min/max/avg/std/variance/balance_factor.
C6_EmptyResult ==
  (Reported /\ stats.total_documents = 0) =>
    /\ ret.kind = "dict"
    /\ ret.value.total_documents = 0
    /\ ret.value.unique_shard_values = 0
    /\ "error" \in DOMAIN ret.value
    /\ DOMAIN ret.value \cap
         {"min_documents_per_shard", "max_documents_per_shard",
          "avg_documents_per_shard", "std_deviation", "variance",
          "balance_factor"} = {}

\* C6 witness: the report of an analysis that simulated no documents
C6_Witness ==
  /\ Reported
  /\ stats.total_documents = 0
  /\ stats.sharding_key = "name"
  /\ ret.value.error = "No documents in collection"

\* the counts that occur in the caller's distribution
Counts == {stats.distribution[k] : k \in DOMAIN stats.distribution}

\* every key of the caller's distribution has the same count
Uniform == Cardinality(Counts) = 1

\* the sum of the squares of the per-key counts of d, count by count
RECURSIVE SumOfSquares(_, _)
SumOfSquares(d, counts) ==
  IF counts = {} THEN 0
  ELSE LET c == CHOOSE x \in counts : TRUE
       IN  c * c * Cardinality({k \in DOMAIN d : d[k] = c})
             + SumOfSquares(d, counts \ {c})

\* the population variance of the per-key counts is VarNum / (u * u), u the
\* number of keys: mean of the squares minus the square of the mean
VarNum ==
  Cardinality(DOMAIN stats.distribution) * SumOfSquares(stats.distribution, Counts)
    - stats.total_documents * stats.total_documents

\* C7 as stated: the reported balance_factor of a non-empty distribution is
\* >= 0 and is 0 only when all key values have identical counts.
C7_ZeroOnlyWhenUniform ==
  (Reported /\ stats.total_documents > 0) =>
    /\ ret.value.balance_factor >= 0
    /\ (ret.value.balance_factor = 0 => Uniform)

\* C7 amended: the reported balance_factor is >= 0 and is 0 only when
\* (max - min) / avg is at most 0.00005, which covers identical counts and
\* also spreads that round to 0 at four decimals; below 0.00005 it is 0.
C7_ZeroOnlyWhenRoundsToZero ==
  (Reported /\ stats.total_documents > 0) =>
    LET spread == (Max(Counts) - Min(Counts)) * Cardinality(DOMAIN stats.distribution)
    IN  /\ ret.value.balance_factor >= 0
        /\ (ret.value.balance_factor = 0 => 20000 * spread <= stats.total_documents)
        /\ (20000 * spread < stats.total_documents => ret.value.balance_factor = 0)

\* C7 witness: counts 20001 and 20000 reported with balance_factor 0
C7_Witness ==
  /\ Reported
  /\ stats.total_documents = 40001
  /\ Max(Counts) > Min(Counts)
  /\ ret.value.balance_factor = 0

\* C8 as stated: for a non-empty distribution the reported variance is 0 iff
\* the reported balance_factor is 0 iff the reported std_deviation is 0.
C8_ZeroTogether ==
  (Reported /\ stats.total_documents > 0) =>
    /\ (ret.value.variance = 0 <=> ret.value.balance_factor = 0)
    /\ (ret.value.balance_factor = 0 <=> ret.value.std_deviation = 0)

\* C8 amended: the three are 0 together before rounding (exactly when the
\* counts are identical); of the reported values, rounded to 2, 4 and 2
\* decimals, all three are 0 when the counts are identical, a reported
\* std_deviation of 0 implies a reported variance of 0, and a reported
\* variance of 0 means a variance of at most 0.005.
C8_ZeroTogetherBeforeRounding ==
  (Reported /\ stats.total_documents > 0) =>
    LET u == Cardinality(DOMAIN stats.distribution)
    IN  /\ (VarNum = 0 <=> Uniform)
        /\ (Uniform => /\ ret.value.variance = 0
                       /\ ret.value.balance_factor = 0
                       /\ ret.value.std_deviation = 0)
        /\ (ret.value.std_deviation = 0 => ret.value.variance = 0)
        /\ (ret.value.variance = 0 => 200 * VarNum <= u * u)

\* C8 witness: 201 keys, one of them with 2 documents: variance reported 0,
\* std_deviation and balance_factor not
C8_Witness ==
  /\ Reported
  /\ Cardinality(DOMAIN stats.distribution) = 201
  /\ ret.value.variance = 0
  /\ ret.value.std_deviation # 0
  /\ ret.value.balance_factor # 0

\* C9: a generator i -> i mod k over a sample size N, a positive multiple
\* of k, gives k keys of N / k documents each; and every distribution whose
\* keys have identical counts reports min = max and balance_factor 0.
C9_ModuloIsUniform ==
  /\ ( /\ Analyzed
       /\ lastOp.key_value_generator # <<>>
       /\ lastOp.key_value_generator[1].kind = "mod"
       /\ lastOp.sample_size # <<>>
       /\ lastOp.sample_size[1] > 0
       /\ lastOp.sample_size[1] % lastOp.key_value_generator[1].k = 0 )
     => LET k      == lastOp.key_value_generator[1].k
            N      == lastOp.sample_size[1]
            report == get_statistics(stats)
        IN  /\ report.unique_shard_values = k
            /\ DOMAIN stats.distribution = 0..(k - 1)
            /\ \A key \in DOMAIN stats.distribution :
                 stats.distribution[key] = N \div k
            /\ report.min_documents_per_shard = report.max_documents_per_shard
            /\ report.balance_factor = 0
  /\ (Reported /\ stats.total_documents > 0 /\ Uniform)
     => /\ ret.value.min_documents_per_shard = ret.value.max_documents_per_shard
        /\ ret.value.balance_factor = 0

\* C9 witness: i -> i mod 5 over a sample of 100, five keys of 20
C9_Witness ==
  /\ Analyzed
  /\ lastOp.key_value_generator = <<ModGen(5)>>
  /\ lastOp.sample_size = <<100>>
  /\ Cardinality(DOMAIN stats.distribution) = 5
  /\ \A key \in DOMAIN stats.distribution : stats.distribution[key] = 20

\* what C10 says of every report of a non-empty distribution but the
\* rounding: the number of keys, the least and the greatest count
C10_Exact ==
  /\ ret.value.total_documents = stats.total_documents
  /\ ret.value.unique_shard_values = Cardinality(DOMAIN stats.distribution)
  /\ ret.value.min_documents_per_shard \in Counts
  /\ \A c \in Counts : ret.value.min_documents_per_shard <= c
  /\ ret.value.max_documents_per_shard \in Counts
  /\ \A c \in Counts : ret.value.max_documents_per_shard >= c

\* |x|
Abs(x) == IF x < 0 THEN -x ELSE x

\* C10 as stated: the reported avg is total / unique, the reported variance
\* the population variance, the reported std_deviation its square root and
\* the reported balance_factor (max - min) / avg, each exactly.
C10_ExactStatistics ==
  (Reported /\ stats.total_documents > 0) =>
    LET u == Cardinality(DOMAIN stats.distribution)
        T == stats.total_documents
    IN  /\ C10_Exact
        /\ ret.value.avg_documents_per_shard * u = 100 * T
        /\ ret.value.variance * u * u = 100 * VarNum
        /\ ret.value.std_deviation * ret.value.std_deviation
             = 100 * ret.value.variance
        /\ ret.value.balance_factor * T
             = 10000 * (Max(Counts) - Min(Counts)) * u

\* C10 amended: unique, min and max are exact; avg, variance and
\* std_deviation are total / unique, the population variance and its square
\* root, each rounded to 2 decimals (std_deviation is the rounded root of
\* the unrounded variance), and balance_factor is (max - min) / avg rounded
\* to 4 decimals.
C10_RoundedStatistics ==
  (Reported /\ stats.total_documents > 0) =>
    LET u == Cardinality(DOMAIN stats.distribution)
        T == stats.total_documents
        sd == ret.value.std_deviation
    IN  /\ C10_Exact
        /\ 2 * Abs(ret.value.avg_documents_per_shard * u - 100 * T) <= u
        /\ 2 * Abs(ret.value.variance * u * u - 100 * VarNum) <= u * u
        /\ sd >= 0
        /\ (sd > 0 => (2 * sd - 1) * (2 * sd - 1) * u * u <= 40000 * VarNum)
        /\ 40000 * VarNum <= (2 * sd + 1) * (2 * sd + 1) * u * u
        /\ 2 * Abs(ret.value.balance_factor * T
                     - 10000 * (Max(Counts) - Min(Counts)) * u) <= T

\* C10 witness: counts 2, 2, 2, 1: variance 0.1875 reported as 0.19 and
\* std_deviation 0.433 reported as 0.43
C10_Witness ==
  /\ Reported
  /\ stats.total_documents = 7
  /\ Cardinality(DOMAIN stats.distribution) = 4
  /\ ret.value.variance = 19
  /\ ret.value.std_deviation = 43

(* ---------------------------------------------------------------------- *)
(* Properties of the size calculator and of the registry                   *)
(* ---------------------------------------------------------------------- *)

\* the size rule for a type and its constraints, first match first
TypeSizeRule(type, constraints) ==
  IF type = "string" /\ "maxLength" \in DOMAIN constraints THEN constraints.maxLength
  ELSE IF type = "string" /\ "minLength" \in DOMAIN constraints THEN constraints.minLength
  ELSE CASE type = "string"  -> 50
         [] type = "number"  -> 8
         [] type = "integer" -> 4
         [] type = "boolean" -> 1
         [] type = "array"   -> 16
         [] type = "object"  -> 24
         [] type = "null"    -> 0
         [] OTHER            -> 50

\* C11: get_type_size returns maxLength for a string that has one, else
\* minLength for a string that has one, else the baseline of the type, 50
\* for any other type, and ignores length constraints of other types; a
\* field schema without a type is parsed as an unrecognized type.
C11_TypeSize ==
  /\ lastOp.op = "get_type_size" =>
       /\ ret.kind = "int"
       /\ ret.value = TypeSizeRule(lastOp.field_type, lastOp.properties)
  /\ \A name \in DOMAIN collections :
       \A f \in DOMAIN collections[name].fields :
         "type" \notin DOMAIN collections[name].fields[f].properties =>
           /\ collections[name].fields[f].type \notin DOMAIN TYPE_SIZES
           /\ lastOp.op = "calculate_document_size" /\ lastOp.collection_name = name
                /\ DOMAIN collections[name].fields = {f}
              => ret.value = 24 + 50 + 8

\* C11 witness: a string with both lengths resolves to its maxLength
C11_Witness ==
  /\ lastOp.op = "get_type_size"
  /\ lastOp.field_type = "string"
  /\ lastOp.properties = [minLength |-> 3, maxLength |-> 50]
  /\ ret.value = 50

\* the size of a field by the rules of the size estimator; an array with an
\* item schema takes 5 items of the item type (object when undeclared) plus
\* 16, the item size with or without the item's own constraints
FieldSizeRule(field, itemConstraints) ==
  IF field.type = "object" THEN 24
  ELSE IF /\ field.type = "array"
          /\ "items" \in DOMAIN field.properties
          /\ DOMAIN field.properties.items # {}
    THEN LET items == field.properties.items
         IN  5 * TypeSizeRule(IF "type" \in DOMAIN items THEN items.type ELSE "object",
                              IF itemConstraints THEN items ELSE << >>) + 16
    ELSE TypeSizeRule(field.type, field.properties)

\* 24 plus, for every field, its size by FieldSizeRule plus 8
RECURSIVE SumFieldSizes(_, _, _)
SumFieldSizes(fields, names, itemConstraints) ==
  IF names = {} THEN 0
  ELSE LET n == CHOOSE x \in names : TRUE
       IN  FieldSizeRule(fields[n], itemConstraints) + 8
             + SumFieldSizes(fields, names \ {n}, itemConstraints)

DocumentSizeRule(collection, itemConstraints) ==
  24 + SumFieldSizes(collection.fields, DOMAIN collection.fields, itemConstraints)

\* the last operation was calculate_document_size
DocumentSized == lastOp.op = "calculate_document_size"

\* C12: an array field with a declared item type counts 5 * s + 16, s being
\* the size of the item type under the item's own constraints (maxLength m
\* of string items gives s = m).
C12_ItemConstraintsCount ==
  DocumentSized =>
    ret.value = DocumentSizeRule(collections[lastOp.collection_name], TRUE)

\* C13: calculate_document_size is 24 plus the sum over the fields of the
\* resolved field size plus 8, an object field resolving to 24 whatever it
\* nests; no fields give 24, and {_id: string, name: string(maxLength 10)}
\* gives 100.
C13_DocumentSize ==
  DocumentSized =>
    LET collection == collections[lastOp.collection_name]
    IN  /\ ret.value = DocumentSizeRule(collection, FALSE)
        /\ (DOMAIN collection.fields = {} => ret.value = 24)
        /\ (collection.schema = UserSchema => ret.value = 100)
        /\ \A f \in DOMAIN collection.fields :
             (collection.fields[f].type = "object"
                /\ DOMAIN collection.fields = {f}) => ret.value = 24 + 24 + 8

\* C13 witness: the catalog collection, whose address field is an object
\* with nested properties
C13_Witness ==
  /\ DocumentSized
  /\ collections[lastOp.collection_name].schema = CatalogSchema
  /\ "properties" \in DOMAIN collections[lastOp.collection_name].fields["address"].properties
  /\ ret.value = 430

\* the sum over the collections named in names of document size by the
\* rules times document_count
RECURSIVE SumCollectionBytes(_, _)
SumCollectionBytes(colls, names) ==
  IF names = {} THEN 0
  ELSE LET n == CHOOSE x \in names : TRUE
       IN  DocumentSizeRule(colls[n], FALSE) * colls[n].document_count
             + SumCollectionBytes(colls, names \ {n})

\* C14: total_collection_size_bytes is the average document size times
\* document_count, and total_database_size_bytes is the sum of those raw
\* totals over every registered collection; the rounded MB/GB figures are
\* derived from the raw totals and never enter them.
C14_RawTotals ==
  /\ lastOp.op = "calculate_collection_size" =>
       LET collection == collections[lastOp.collection_name]
       IN  /\ ret.value.document_count = collection.document_count
           /\ ret.value.average_document_size_bytes = DocumentSizeRule(collection, FALSE)
           /\ ret.value.total_collection_size_bytes
                = ret.value.average_document_size_bytes * collection.document_count
  /\ lastOp.op = "calculate_database_size" =>
       /\ DOMAIN ret.value.collections = DOMAIN collections
       /\ ret.value.collection_count = Cardinality(DOMAIN collections)
       /\ \A n \in DOMAIN collections :
            ret.value.collections[n].total_collection_size_bytes
              = DocumentSizeRule(collections[n], FALSE) * collections[n].document_count
       /\ ret.value.total_database_size_bytes
            = SumCollectionBytes(collections, DOMAIN collections)
       /\ 2 * Abs(ret.value.total_database_size_mb * 512 * 512
                    - 25 * ret.value.total_database_size_bytes) <= 512 * 512

\* C14 witness: two collections of 250 documents whose MB figures (0.02 and
\* 0.10) add up to less than the raw total in MB (0.13)
C14_Witness ==
  /\ lastOp.op = "calculate_database_size"
  /\ DOMAIN collections = {"users", "orders"}
  /\ ret.value.total_database_size_bytes = 100 * 250 + 430 * 250
  /\ ret.value.collections["users"].total_collection_size_mb = 2
  /\ ret.value.collections["orders"].total_collection_size_mb = 10
  /\ ret.value.total_database_size_mb = 13

\* C19: a load_schema step registers the collection under its name with
\* document_count 0 (replacing one registered before) and touches no other
\* collection; an add_documents step sets the count of a registered name to
\* its argument, overwriting, and changes nothing at all for an unregistered
\* name; no other operation changes a collection.  Hence each count is that
\* of the last add_documents since the last load_schema of the name, or 0.
C19_CountIsLastSet ==
  [][ /\ lastOp'.op = "load_schema" =>
           LET name == lastOp'.collection_name
           IN  /\ DOMAIN collections' = DOMAIN collections \cup {name}
               /\ collections'[name].document_count = 0
               /\ \A other \in DOMAIN collections \ {name} :
                    collections'[other] = collections[other]
      /\ lastOp'.op = "add_documents" =>
           LET name == lastOp'.collection_name
           IN  IF name \in DOMAIN collections
                 THEN /\ DOMAIN collections' = DOMAIN collections
                      /\ collections'[name].document_count = lastOp'.count
                      /\ collections'[name].fields = collections[name].fields
                      /\ \A other \in DOMAIN collections \ {name} :
                           collections'[other] = collections[other]
                 ELSE /\ collections' = collections
                      /\ schemas' = schemas
                      /\ stats' = stats
      /\ lastOp'.op \notin {"load_schema", "add_documents"} =>
           collections' = collections
    ]_vars

\* C19 witness: a count overwritten by a smaller one while the other
\* collection keeps its own
C19_Witness ==
  /\ lastOp.op = "add_documents"
  /\ lastOp.collection_name = "users"
  /\ lastOp.count = 3
  /\ DOMAIN collections = {"users", "orders"}
  /\ collections["users"].document_count = 3
  /\ collections["orders"].document_count = 250

(* ---------------------------------------------------------------------- *)
(* Properties of compare_sharding_strategies and of object sharing         *)
(* ---------------------------------------------------------------------- *)

\* the last operation was compare_sharding_strategies
Compared == lastOp.op = "compare_sharding_strategies"

\* the positions of the compared keys that are no field of the collection
InvalidPositions ==
  {j \in 1..Len(lastOp.sharding_keys) :
     lastOp.sharding_keys[j] \notin DOMAIN collections[lastOp.collection_name].fields}

\* the generators handed to the last comparison, as a dict
GivenGenerators ==
  IF lastOp.key_generators = <<>> THEN << >> ELSE lastOp.key_generators[1]

\* the generator calls of analysing the first upto keys one after the other
\* over n documents each: indices 0..n-1 for every key that has a generator
RECURSIVE CallsOfPrefix(_, _, _, _)
CallsOfPrefix(keys, upto, generators, n) ==
  IF upto = 0 THEN <<>>
  ELSE CallsOfPrefix(keys, upto - 1, generators, n)
         \o (IF keys[upto] \in DOMAIN generators
               THEN [j \in 1..n |-> [key |-> keys[upto], i |-> j - 1]]
               ELSE <<>>)

\* C15: compare_sharding_strategies over keys that are all fields returns
\* one record per key, in input order, duplicates included, each equal to
\* get_statistics of an independent analyze_sharding call with that key and
\* that key's generator (none when the dict has none for it).
C15_OneRecordPerKey ==
  Compared /\ InvalidPositions = {} =>
    LET collection == collections[lastOp.collection_name]
        keys       == lastOp.sharding_keys
    IN  /\ ret.kind = "list"
        /\ Len(ret.value) = Len(keys)
        /\ \A j \in 1..Len(keys) :
             /\ ret.value[j].sharding_key = keys[j]
             /\ ret.value[j].total_documents = collection.document_count
             /\ ret.value[j] =
                  get_statistics(
                    analyze_sharding(collection, keys[j],
                                     GetOpt(GivenGenerators, keys[j]), <<>>).value)
        /\ calls = CallsOfPrefix(keys, Len(keys), GivenGenerators,
                                 collection.document_count)

\* C15 witness: three keys, the first repeated as the third, only the
\* repeated key having a generator
C15_Witness ==
  /\ Compared
  /\ lastOp.sharding_keys = <<"_id", "name", "_id">>
  /\ "_id" \in DOMAIN GivenGenerators
  /\ ret.kind = "list"
  /\ Len(ret.value) = 3
  /\ ret.value[1].total_documents = 3
  /\ ret.value[1].unique_shard_values = 2
  /\ ret.value[2].unique_shard_values = 1
  /\ ret.value[3] = ret.value[1]

\* C16: when some compared key is no field of the collection, the call
\* raises the key-not-found error and returns no list, and the keys after
\* the first such key are never analyzed: the generator calls made are those
\* of the keys before it.
C16_InvalidKeyAborts ==
  Compared /\ InvalidPositions # {} =>
    LET first == CHOOSE j \in InvalidPositions :
                   \A k \in InvalidPositions : j <= k
    IN  /\ ret = [kind |-> "ValueError"]
        /\ calls = CallsOfPrefix(lastOp.sharding_keys, first - 1, GivenGenerators,
                                 collections[lastOp.collection_name].document_count)

\* C16 witness: an invalid key between two valid ones that have a generator
C16_Witness ==
  /\ Compared
  /\ lastOp.sharding_keys = <<"_id", "missing", "_id">>
  /\ "_id" \in DOMAIN GivenGenerators
  /\ collections[lastOp.collection_name].document_count = 3
  /\ ret.kind = "ValueError"
  /\ Len(calls) = 3

\* the operations that only read the collections and the schemas
ReadOnlyOps ==
  {"analyze_sharding", "compare_sharding_strategies", "get_statistics",
   "write_report", "calculate_document_size", "calculate_collection_size",
   "calculate_database_size"}

\* C17: analyze_sharding, compare_sharding_strategies, get_statistics and
\* the size calculations leave every collection (fields and document_count)
\* unchanged; an analysis that returns hands out counters built from empty
\* (its total is the number of documents it simulated, whatever the caller
\* held before); the ShardingStatistics the caller holds is changed neither
\* by a later comparison or failed analysis, nor by get_statistics, nor by a
\* write to the distribution of a returned report.
C17_NoSharedState ==
  [][ /\ lastOp'.op \in ReadOnlyOps =>
           /\ collections' = collections
           /\ schemas' = schemas
      /\ lastOp'.op \in ReadOnlyOps \ {"analyze_sharding"} => stats' = stats
      /\ lastOp'.op = "analyze_sharding" /\ ret'.kind = "ValueError" => stats' = stats
      /\ lastOp'.op = "analyze_sharding" /\ ret'.kind = "ShardingStatistics" =>
           LET simulated ==
                 IF lastOp'.sample_size # <<>> /\ lastOp'.sample_size[1] # 0
                   THEN lastOp'.sample_size[1]
                   ELSE collections[lastOp'.collection_name].document_count
           IN  /\ stats'.collection_name = lastOp'.collection_name
               /\ stats'.sharding_key = lastOp'.sharding_key
               /\ stats'.total_documents = simulated
               /\ SumOfCounts(stats'.distribution,
                              {stats'.distribution[k] : k \in DOMAIN stats'.distribution})
                    = simulated
      /\ lastOp'.op = "compare_sharding_strategies" /\ ret'.kind = "list" =>
           \A j \in 1..Len(ret'.value) :
             ret'.value[j].total_documents
               = collections[lastOp'.collection_name].document_count
    ]_vars

\* C17 witness: the caller still holds the 4 documents of an earlier
\* analysis after a comparison that analyzed 3 documents twice
C17_Witness ==
  /\ Compared
  /\ ret.kind = "list"
  /\ Len(ret.value) = 2
  /\ ret.value[1].total_documents = 3
  /\ ret.value[2].total_documents = 3
  /\ stats.total_documents = 4
  /\ stats.collection_name = lastOp.collection_name

(* ---------------------------------------------------------------------- *)
(* Properties of the default distribution and of the counters              *)
(* ---------------------------------------------------------------------- *)

\* the last operation was an analyze_sharding call without a generator that
\* returned at least one document
AnalyzedByDefault ==
  /\ Analyzed
  /\ lastOp.key_value_generator = <<>>
  /\ stats.total_documents > 0

\* the number of default buckets for n documents: n / 100 rounded down,
\* kept between 1 and 10
BucketCount(n) ==
  IF n \div 100 < 1 THEN 1 ELSE IF n \div 100 > 10 THEN 10 ELSE n \div 100

C20_CountsArePositive ==
  LET d      == stats.distribution
      total  == stats.total_documents
      unique == Cardinality(DOMAIN d)
  IN  /\ \A key \in DOMAIN d : d[key] >= 1
      /\ unique <= total
      /\ total > 0 =>
           LET reported == get_statistics(stats)
               least    == reported.min_documents_per_shard
               most     == reported.max_documents_per_shard
           IN  /\ reported.unique_shard_values = unique
               /\ unique >= 1
               /\ 1 <= least
               /\ least * unique <= total
               /\ total <= most * unique
               /\ most <= total

\* C20 witness: three documents over two keys entered one by one, where
\* 1 = min < 3/2 < max = 2 < 3
C20_Witness ==
  /\ lastOp.op = "add_document"
  /\ stats.total_documents = 3
  /\ Cardinality(DOMAIN stats.distribution) = 2
  /\ Counts = {1, 2}

====
